---- MODULE Spec2Model ----
(***************************************************************************)
(* The word-to-mapping resolution engine of enhanced_script.js: the data   *)
(* load (loadDatabase / extractRootData), the IntelligentWordAnalyzer with *)
(* its result cache, the two similarity functions, and the database lookup *)
(* of the second script (loadMappingData / findWordInDatabase).            *)
(*                                                                         *)
(* A JavaScript string is a sequence of one-character strings.  A Chinese  *)
(* string is a sequence of glyph tokens, so that string concatenation is   *)
(* sequence concatenation.  A number that the code computes by a division  *)
(* (a similarity, a confidence) is a reduced fraction <<num, den>>.        *)
(***************************************************************************)
EXTENDS Integers, Sequences, FiniteSets, TLC

VARIABLES
    WORD_DATABASE,   \* the loaded entries
    ROOT_DATABASE,   \* the index extractRootData builds: key -> entry or array of entries
    MORPHEME_RULES,  \* the affix tables, {} until extractRootData has run
    phase,           \* "start", then "loaded" or "fallback" (the load failed)
    cache,           \* the analyzer's cache: normalized word -> analysis
    arg,             \* the argument of the last call of analyze
    ret,             \* what the last call of analyze returned, or Threw
    now,             \* Date.now()
    first,           \* history: normalized word -> the first analysis any analyzer returned for it
    simCall,         \* the last call of the two similarity functions, with both results
    appState,        \* the state of the second script: its database
    mapping,         \* "start", then "loaded" or "fallback" (loadMappingData failed)
    dbCall           \* the last call of findWordInDatabase: its word and what it returned

vars == <<WORD_DATABASE, ROOT_DATABASE, MORPHEME_RULES, phase, cache, arg, ret, now, first, simCall,
          appState, mapping, dbCall>>

(***************************************************************************)
(* Bounds of the exploration.                                              *)
(***************************************************************************)
\* Longest lexicon (number of entries) a load may deliver.
MaxLex == 2

\* Most distinct normalized words queried on one analyzer.
MaxCache == 1

\* Last value of the millisecond clock.
MaxClock == 1

\* Longest string handed to the similarity functions.
MaxStr == 3

\* the entries of a database of the second script
MaxDb == 2

(***************************************************************************)
(* Strings.                                                                *)
(***************************************************************************)
Min(s) == CHOOSE x \in s : \A y \in s : x <= y

Max2(a, b) == IF a >= b THEN a ELSE b

StartsWith(w, p) == Len(p) <= Len(w) /\ SubSeq(w, 1, Len(p)) = p

EndsWith(w, s) == Len(s) <= Len(w) /\ SubSeq(w, Len(w) - Len(s) + 1, Len(w)) = s

\* word.slice(0, -k) for 0 < k <= word.length
DropLast(w, k) == SubSeq(w, 1, Len(w) - k)

\* word.slice(k)
DropFirst(w, k) == SubSeq(w, k + 1, Len(w))

\* a.includes(b)
Includes(a, b) == \E i \in 0..(Len(a) - Len(b)) : SubSeq(a, i + 1, i + Len(b)) = b

\* new Set(str)
CharSet(s) == {s[i] : i \in 1..Len(s)}

UpperAlpha == <<"A", "B", "C", "D", "E", "F", "G", "H", "I", "J", "K", "L", "M", "N", "O", "P", "Q", "R", "S", "T", "U", "V", "W", "X", "Y", "Z">>

LowerAlpha == <<"a", "b", "c", "d", "e", "f", "g", "h", "i", "j", "k", "l", "m", "n", "o", "p", "q", "r", "s", "t", "u", "v", "w", "x", "y", "z">>

Digits == <<"0", "1", "2", "3", "4", "5", "6", "7", "8", "9">>

\* the lower-case letter of each upper-case letter
LowerMap == [c \in {UpperAlpha[i] : i \in 1..26} |-> LowerAlpha[CHOOSE i \in 1..26 : UpperAlpha[i] = c]]

LowerChar(c) == IF c \in DOMAIN LowerMap THEN LowerMap[c] ELSE c

toLowerCase(s) == [i \in 1..Len(s) |-> LowerChar(s[i])]

IsSpace(c) == c \in {" ", "\t", "\n"}

trim(s) ==
    LET keep == {i \in 1..Len(s) : ~IsSpace(s[i])}
    IN  IF keep = {} THEN <<>>
        ELSE SubSeq(s, Min(keep), CHOOSE x \in keep : \A y \in keep : y <= x)

\* \w of the regular expressions
WordChars == CharSet(UpperAlpha) \cup CharSet(LowerAlpha) \cup CharSet(Digits) \cup {"_"}

IsWordChar(c) == c \in WordChars

AllWordChars(s) == \A i \in 1..Len(s) : IsWordChar(s[i])

\* String(n) for 0 <= n <= 99
Decimal(n) ==
    IF n < 10 THEN <<Digits[n + 1]>>
    ELSE <<Digits[(n \div 10) + 1], Digits[(n % 10) + 1]>>

(***************************************************************************)
(* Numbers.                                                                *)
(***************************************************************************)
RECURSIVE Gcd(_, _)
Gcd(a, b) == IF b = 0 THEN a ELSE Gcd(b, a % b)

\* n / d for d > 0, reduced
Frac(n, d) == LET g == Gcd(n, d) IN <<n \div g, d \div g>>

Geq(x, y) == x[1] * y[2] >= y[1] * x[2]

Gt(x, y) == x[1] * y[2] > y[1] * x[2]

Zero == <<0, 1>>

One == <<1, 1>>

(***************************************************************************)
(* Values.                                                                 *)
(***************************************************************************)
null == [type |-> "null"]

\* the outcome of a call that raised a TypeError
Threw == [type |-> "throw"]

\* Object.prototype.constructor, reached through the prototype chain of {}
ObjectConstructor == [type |-> "function"]

\* Object.prototype, the value of ({}).__proto__
ObjectPrototype == [type |-> "object"]

\* the token a string concatenation renders undefined as
Undefined == <<"undefined">>

\* the value of a missing property
undefined == [type |-> "undefined"]

Entry(eng, chi) ==
    [type |-> "entry", english |-> eng, chinese |-> chi, pinyin |-> "", category |-> "Nature/Existence", priority |-> 1]

\* v.chinese
chineseOf(v) == IF v.type = "entry" THEN v.chinese ELSE Undefined

(***************************************************************************)
(* extractRootData: the affix tables and the index over WORD_DATABASE.     *)
(***************************************************************************)
Prefixes ==
    << <<"u", "n">>, <<"d", "i", "s">>, <<"r", "e">>, <<"p", "r", "e">>, <<"m", "i", "s">>, <<"o", "v", "e", "r">>, <<"u", "n", "d", "e", "r">>, <<"s", "u", "b">>, <<"s", "u", "p", "e", "r">>,
       <<"i", "n", "t", "e", "r">>, <<"i", "n", "t", "r", "a">>, <<"t", "r", "a", "n", "s">> >>

Suffixes ==
    << <<"i", "n", "g">>, <<"e", "d">>, <<"s">>, <<"e", "s">>, <<"l", "y">>, <<"m", "e", "n", "t">>, <<"n", "e", "s", "s">>, <<"t", "i", "o", "n">>, <<"s", "i", "o", "n">>, <<"a", "b", "l", "e">>,
       <<"i", "b", "l", "e">>, <<"a", "l">>, <<"i", "a", "l">>, <<"f", "u", "l">>, <<"l", "e", "s", "s">>, <<"i", "z", "e">>, <<"i", "s", "e">>, <<"i", "t", "y">>, <<"i", "s", "m">>, <<"i", "s", "t">>,
       <<"a", "n", "c", "e">>, <<"e", "n", "c", "e">>, <<"h", "o", "o", "d">>, <<"s", "h", "i", "p">>, <<"d", "o", "m">> >>

Inflections == << <<"s">>, <<"e", "s">>, <<"e", "d">>, <<"i", "n", "g">>, <<"e", "r">>, <<"e", "s", "t">> >>

\* MORPHEME_RULES = {}
EmptyRules == [defined |-> FALSE, prefixes |-> <<>>, suffixes |-> <<>>, inflections |-> <<>>]

LoadedRules == [defined |-> TRUE, prefixes |-> Prefixes, suffixes |-> Suffixes, inflections |-> Inflections]

\* ROOT_DATABASE = {}
EmptyObject == [k \in {} |-> null]

LengthKey(n) == <<"l", "e", "n", "g", "t", "h", "_">> \o Decimal(n)

LetterKey(eng) == <<"l", "e", "t", "t", "e", "r", "_">> \o (IF Len(eng) = 0 THEN <<"u", "n", "d", "e", "f", "i", "n", "e", "d">> ELSE <<eng[1]>>)

\* obj[key] = value
Put(obj, key, value) == [k \in DOMAIN obj \cup {key} |-> IF k = key THEN value ELSE obj[k]]

\* obj[key] is falsy, or an array: obj[key].push exists.  An entry stored under
\* the same key is truthy and has no push.
CanPush(obj, key) == key \notin DOMAIN obj \/ obj[key].type = "array"

\* if (!obj[key]) obj[key] = []; obj[key].push(word)
PushTo(obj, key, word) ==
    IF key \notin DOMAIN obj THEN Put(obj, key, [type |-> "array", items |-> <<word>>])
    ELSE Put(obj, key, [type |-> "array", items |-> Append(obj[key].items, word)])

\* IndexWord with the direct index keeping the first entry stored under a key
IndexWord_FirstWriteWins(db, word) ==
    LET eng == toLowerCase(word.english)
        d1  == IF eng \in DOMAIN db THEN db ELSE Put(db, eng, word)
        d2  == PushTo(d1, LengthKey(Len(eng)), word)
    IN  [threw |-> FALSE, db |-> PushTo(d2, LetterKey(eng), word)]

\* one iteration of the forEach: the index after `word`, and whether a push raised
IndexWord(db, word) ==
    LET eng == toLowerCase(word.english)
        d1  == Put(db, eng, word)
    IN  IF ~CanPush(d1, LengthKey(Len(eng))) THEN [threw |-> TRUE, db |-> d1]
        ELSE LET d2 == PushTo(d1, LengthKey(Len(eng)), word)
             IN  IF ~CanPush(d2, LetterKey(eng)) THEN [threw |-> TRUE, db |-> d2]
                 ELSE [threw |-> FALSE, db |-> PushTo(d2, LetterKey(eng), word)]

RECURSIVE IndexFrom(_, _, _)
IndexFrom(db, words, i) ==
    IF i > Len(words) THEN [threw |-> FALSE, db |-> db]
    ELSE LET r == IndexWord(db, words[i])
         IN  IF r.threw THEN r ELSE IndexFrom(r.db, words, i + 1)

\* the run of extractRootData over `words`: the index it leaves and whether it raised
extractRootData(words) == IndexFrom(EmptyObject, words, 1)

(***************************************************************************)
(* IntelligentWordAnalyzer: the strategies.                                *)
(***************************************************************************)
\* ROOT_DATABASE[key]: an own property, else one inherited from Object.prototype
\* (the keys are lowercased, so constructor and __proto__ are the ones in reach)
Get(obj, key) ==
    IF key \in DOMAIN obj THEN obj[key]
    ELSE IF key = <<"c", "o", "n", "s", "t", "r", "u", "c", "t", "o", "r">> THEN ObjectConstructor
    ELSE IF key = <<"_", "_", "p", "r", "o", "t", "o", "_", "_">> THEN ObjectPrototype
    ELSE undefined

Lookup(table, key, default) ==
    IF \E i \in 1..Len(table) : table[i][1] = key
    THEN table[CHOOSE i \in 1..Len(table) : table[i][1] = key][2]
    ELSE default

directMatch(word) ==
    LET v == Get(ROOT_DATABASE, word)
    IN  IF v = undefined THEN null ELSE v

InflectionMeanings ==
    << <<<<"s">>, <<"U590D", "U6570">>>>, <<<<"e", "s">>, <<"U590D", "U6570">>>>, <<<<"e", "d">>, <<"U8FC7", "U53BB", "U5F0F">>>>,
       <<<<"i", "n", "g">>, <<"U8FDB", "U884C", "U5F0F">>>>, <<<<"e", "r">>, <<"U6BD4", "U8F83", "U7EA7">>>>, <<<<"e", "s", "t">>, <<"U6700", "U9AD8", "U7EA7">>>> >>

\* meanings[inflection] || ''
getInflectionMeaning(inflection) == Lookup(InflectionMeanings, inflection, <<>>)

\* matchInflections taking the last suffix of the table that fits, not the first
matchInflections_LastFits(word) ==
    LET inflections == MORPHEME_RULES.inflections
        hits == {i \in 1..Len(inflections) :
                    /\ EndsWith(word, inflections[i])
                    /\ directMatch(DropLast(word, Len(inflections[i]))) # null}
    IN  IF ~MORPHEME_RULES.defined THEN Threw
        ELSE IF hits = {} THEN null
        ELSE LET inflection == inflections[CHOOSE i \in hits : \A j \in hits : j <= i]
                 base  == DropLast(word, Len(inflection))
                 match == directMatch(base)
             IN  [result |-> match,
                  decomposition |->
                      << [part |-> base, type |-> "base", chinese |-> chineseOf(match)],
                         [part |-> inflection, type |-> "inflection",
                          chinese |-> getInflectionMeaning(inflection)] >>]

\* Threw when MORPHEME_RULES.inflections is undefined
matchInflections(word) ==
    IF ~MORPHEME_RULES.defined THEN Threw
    ELSE
    LET inflections == MORPHEME_RULES.inflections
        hits == {i \in 1..Len(inflections) :
                    /\ EndsWith(word, inflections[i])
                    /\ directMatch(DropLast(word, Len(inflections[i]))) # null}
    IN  IF hits = {} THEN null
        ELSE LET inflection == inflections[Min(hits)]
                 base  == DropLast(word, Len(inflection))
                 match == directMatch(base)
             IN  [result |-> match,
                  decomposition |->
                      << [part |-> base, type |-> "base", chinese |-> chineseOf(match)],
                         [part |-> inflection, type |-> "inflection",
                          chinese |-> getInflectionMeaning(inflection)] >>]

PrefixMeanings ==
    << <<<<"u", "n">>, <<"U4E0D">>>>, <<<<"d", "i", "s">>, <<"U975E">>>>, <<<<"r", "e">>, <<"U518D">>>>, <<<<"p", "r", "e">>, <<"U524D">>>>,
       <<<<"m", "i", "s">>, <<"U8BEF">>>>, <<<<"o", "v", "e", "r">>, <<"U8FC7">>>>, <<<<"u", "n", "d", "e", "r">>, <<"U4E0D", "U8DB3">>>>,
       <<<<"s", "u", "b">>, <<"U4E0B">>>>, <<<<"s", "u", "p", "e", "r">>, <<"U8D85">>>>, <<<<"i", "n", "t", "e", "r">>, <<"U95F4">>>>,
       <<<<"i", "n", "t", "r", "a">>, <<"U5185">>>>, <<<<"t", "r", "a", "n", "s">>, <<"U8DE8">>>> >>

getPrefixMeaning(prefix) == Lookup(PrefixMeanings, prefix, <<>>)

SuffixMeanings ==
    << <<<<"i", "n", "g">>, <<"U4E2D">>>>, <<<<"e", "d">>, <<"U4E86">>>>, <<<<"s">>, <<"U4EEC">>>>, <<<<"e", "s">>, <<"U4EEC">>>>,
       <<<<"l", "y">>, <<"U5730">>>>, <<<<"m", "e", "n", "t">>, <<>> >>, <<<<"n", "e", "s", "s">>, <<"U6027">>>>, <<<<"t", "i", "o", "n">>, <<>> >>,
       <<<<"s", "i", "o", "n">>, <<>> >>, <<<<"a", "b", "l", "e">>, <<"U53EF">>>>, <<<<"i", "b", "l", "e">>, <<"U53EF">>>>, <<<<"a", "l">>, <<"U7684">>>>,
       <<<<"i", "a", "l">>, <<"U7684">>>>, <<<<"f", "u", "l">>, <<"U5145", "U6EE1">>>>, <<<<"l", "e", "s", "s">>, <<"U65E0">>>>, <<<<"i", "z", "e">>, <<"U5316">>>>,
       <<<<"i", "s", "e">>, <<"U5316">>>>, <<<<"i", "t", "y">>, <<"U6027">>>>, <<<<"i", "s", "m">>, <<"U4E3B", "U4E49">>>>, <<<<"i", "s", "t">>, <<"U5BB6">>>>,
       <<<<"a", "n", "c", "e">>, <<>> >>, <<<<"e", "n", "c", "e">>, <<>> >>, <<<<"h", "o", "o", "d">>, <<"U72B6", "U6001">>>>,
       <<<<"s", "h", "i", "p">>, <<"U5173", "U7CFB">>>>, <<<<"d", "o", "m">>, <<"U9886", "U57DF">>>> >>

getSuffixMeaning(suffix) == Lookup(SuffixMeanings, suffix, <<>>)

\* {...baseMatch, chinese: chi}; of a value that is no entry only chinese is kept
Spread(baseMatch, chi) ==
    IF baseMatch.type = "entry" THEN [baseMatch EXCEPT !.chinese = chi]
    ELSE [type |-> "object", chinese |-> chi]

\* the prefixes, in table order, that split `word` over a stem directMatch finds
PrefixHits(word) ==
    {i \in 1..Len(MORPHEME_RULES.prefixes) :
        LET prefix == MORPHEME_RULES.prefixes[i]
        IN  /\ StartsWith(word, prefix)
            /\ Len(word) > Len(prefix) + 2
            /\ directMatch(DropFirst(word, Len(prefix))) # null}

SuffixHits(word) ==
    {i \in 1..Len(MORPHEME_RULES.suffixes) :
        LET suffix == MORPHEME_RULES.suffixes[i]
        IN  /\ EndsWith(word, suffix)
            /\ Len(word) > Len(suffix) + 2
            /\ directMatch(DropLast(word, Len(suffix))) # null}

PrefixedMatch(word) ==
    LET prefix    == MORPHEME_RULES.prefixes[Min(PrefixHits(word))]
        base      == DropFirst(word, Len(prefix))
        baseMatch == directMatch(base)
    IN  [type |-> "prefixed",
         confidence |-> Frac(85, 100),
         result |-> Spread(baseMatch, getPrefixMeaning(prefix) \o chineseOf(baseMatch)),
         decomposition |->
             << [part |-> prefix, type |-> "prefix", meaning |-> getPrefixMeaning(prefix)],
                [part |-> base, type |-> "base", chinese |-> chineseOf(baseMatch)] >>]

\* SuffixedMatch reporting the whole word as the base part
SuffixedMatch_WholeWordBase(word) ==
    LET suffix    == MORPHEME_RULES.suffixes[Min(SuffixHits(word))]
        baseMatch == directMatch(DropLast(word, Len(suffix)))
    IN  [type |-> "suffixed",
         confidence |-> Frac(80, 100),
         result |-> Spread(baseMatch, chineseOf(baseMatch) \o getSuffixMeaning(suffix)),
         decomposition |->
             << [part |-> word, type |-> "base", chinese |-> chineseOf(baseMatch)],
                [part |-> suffix, type |-> "suffix", meaning |-> getSuffixMeaning(suffix)] >>]

SuffixedMatch(word) ==
    LET suffix    == MORPHEME_RULES.suffixes[Min(SuffixHits(word))]
        base      == DropLast(word, Len(suffix))
        baseMatch == directMatch(base)
    IN  [type |-> "suffixed",
         confidence |-> Frac(80, 100),
         result |-> Spread(baseMatch, chineseOf(baseMatch) \o getSuffixMeaning(suffix)),
         decomposition |->
             << [part |-> base, type |-> "base", chinese |-> chineseOf(baseMatch)],
                [part |-> suffix, type |-> "suffix", meaning |-> getSuffixMeaning(suffix)] >>]

\* matchWithAffixes trying the suffixes before the prefixes
matchWithAffixes_SuffixFirst(word) ==
    IF ~MORPHEME_RULES.defined THEN Threw
    ELSE IF SuffixHits(word) # {} THEN SuffixedMatch(word)
    ELSE IF PrefixHits(word) # {} THEN PrefixedMatch(word)
    ELSE null

\* Threw when MORPHEME_RULES.prefixes is undefined
matchWithAffixes(word) ==
    IF ~MORPHEME_RULES.defined THEN Threw
    ELSE IF PrefixHits(word) # {} THEN PrefixedMatch(word)
    ELSE IF SuffixHits(word) # {} THEN SuffixedMatch(word)
    ELSE null

\* Analyzer_calculateSimilarity looking for str2 inside str1 only
Analyzer_calculateSimilarity_OneWay(str1, str2) ==
    IF str1 = str2 THEN One
    ELSE IF Includes(str1, str2) THEN Frac(9, 10)
    ELSE Frac(Cardinality(CharSet(str1) \cap CharSet(str2)),
              Cardinality(CharSet(str1) \cup CharSet(str2)))

\* the shared characters measured against the smaller character set
Analyzer_calculateSimilarity_OverSmaller(str1, str2) ==
    IF str1 = str2 THEN One
    ELSE IF Includes(str1, str2) \/ Includes(str2, str1) THEN Frac(9, 10)
    ELSE LET set1 == CharSet(str1)
             set2 == CharSet(str2)
             smaller == IF Cardinality(set1) < Cardinality(set2) THEN set1 ELSE set2
         IN  Frac(Cardinality(set1 \cap set2), Cardinality(smaller))

\* the method IntelligentWordAnalyzer.calculateSimilarity
Analyzer_calculateSimilarity(str1, str2) ==
    IF str1 = str2 THEN One
    ELSE IF Includes(str1, str2) \/ Includes(str2, str1) THEN Frac(9, 10)
    ELSE LET set1 == CharSet(str1)
             set2 == CharSet(str2)
             intersection == {x \in set1 : x \in set2}
             union == set1 \cup set2
         IN  Frac(Cardinality(intersection), Cardinality(union))

\* the global function calculateSimilarity, which findFuzzyMatch calls
calculateSimilarity(str1, str2) ==
    LET longer  == IF Len(str1) > Len(str2) THEN str1 ELSE str2
        shorter == IF Len(str1) > Len(str2) THEN str2 ELSE str1
    IN  IF Len(longer) = 0 THEN One
        ELSE IF Includes(longer, shorter) THEN Frac(9, 10)
        ELSE LET set1 == CharSet(str1)
                 set2 == CharSet(str2)
                 intersection == {x \in set1 : x \in set2}
                 union == set1 \cup set2
             IN  Frac(Cardinality(intersection), Cardinality(union))

\* a sort that puts `c` before the candidates that are as similar
InsertCandidate_TiesFirst(sorted, c) ==
    LET k == Cardinality({j \in 1..Len(sorted) : Gt(sorted[j].similarity, c.similarity)})
    IN  SubSeq(sorted, 1, k) \o <<c>> \o SubSeq(sorted, k + 1, Len(sorted))

\* the comparator (a, b) => b.similarity - a.similarity under a stable sort:
\* `c` goes behind every candidate that is at least as similar
InsertCandidate(sorted, c) ==
    LET k == Cardinality({j \in 1..Len(sorted) : Geq(sorted[j].similarity, c.similarity)})
    IN  SubSeq(sorted, 1, k) \o <<c>> \o SubSeq(sorted, k + 1, Len(sorted))

RECURSIVE SortCandidates(_, _, _)
SortCandidates(cs, i, acc) ==
    IF i > Len(cs) THEN acc ELSE SortCandidates(cs, i + 1, InsertCandidate(acc, cs[i]))

\* a threshold that admits every candidate
Threshold_AdmitsAll == Frac(0, 10)

\* const threshold = 0.7
Threshold == Frac(7, 10)

\* the candidates one length bucket contributes, in bucket order
BucketCandidates(word, items) ==
    LET scored == [i \in 1..Len(items) |->
                      [word |-> items[i],
                       similarity |-> Analyzer_calculateSimilarity(word, toLowerCase(items[i].english))]]
    IN  SelectSeq(scored, LAMBDA c : Geq(c.similarity, Threshold))

\* ROOT_DATABASE[`length_${len}`] || []
WordsOfLength(len) ==
    LET v == Get(ROOT_DATABASE, LengthKey(len)) IN IF v = undefined THEN [type |-> "array", items |-> <<>>] ELSE v

RECURSIVE CandidatesFrom(_, _, _)
CandidatesFrom(word, len, hi) ==
    IF len > hi THEN <<>>
    ELSE BucketCandidates(word, WordsOfLength(len).items) \o CandidatesFrom(word, len + 1, hi)

\* a window that starts at length 1
LengthLo_FromOne(word) == Max2(1, Len(word) - 3)

\* lengthRange
LengthLo(word) == Max2(3, Len(word) - 3)

LengthHi(word) == Len(word) + 3

\* Threw when a bucket in the range holds an entry instead of an array (for...of
\* over a value that is not iterable)
findSimilarWords(word) ==
    IF \E len \in LengthLo(word)..LengthHi(word) : WordsOfLength(len).type # "array" THEN Threw
    ELSE
    LET found == CandidatesFrom(word, LengthLo(word), LengthHi(word))
        candidates == SortCandidates(found, 1, <<>>)
    IN  IF Len(candidates) > 0
        THEN [confidence |-> candidates[1].similarity,
              result |-> candidates[1].word,
              suggestions |-> [i \in 1..(IF Len(candidates) < 5 THEN Len(candidates) - 1 ELSE 4) |->
                                  candidates[i + 1].word]]
        ELSE null

\* the four regular expressions: a list of alternatives behind or before (\w+)
Patterns ==
    << [kind |-> "suffix",
        alts |-> << <<"g", "r", "a", "p", "h", "y">>, <<"l", "o", "g", "y">>, <<"n", "o", "m", "y">>, <<"s", "o", "p", "h", "y">>, <<"p", "a", "t", "h", "y">>, <<"m", "e", "t", "r", "y">>, <<"s", "c", "o", "p", "y">> >>],
       [kind |-> "suffix",
        alts |-> << <<"a", "b", "l", "e">>, <<"i", "b", "l", "e">>, <<"f", "u", "l">>, <<"l", "e", "s", "s">>, <<"n", "e", "s", "s">>, <<"m", "e", "n", "t">>, <<"t", "i", "o", "n">>, <<"s", "i", "o", "n">>,
                    <<"a", "n", "c", "e">>, <<"e", "n", "c", "e">> >>],
       [kind |-> "prefix",
        alts |-> << <<"m", "i", "c", "r", "o">>, <<"m", "a", "c", "r", "o">>, <<"t", "e", "l", "e">>, <<"h", "y", "d", "r", "o">>, <<"p", "s", "y", "c", "h">>, <<"c", "h", "r", "o", "n">>, <<"g", "e", "o">>, <<"b", "i", "o">>,
                    <<"a", "s", "t", "r", "o">>, <<"t", "h", "e", "r", "m">>, <<"p", "h", "o", "t", "o">> >>],
       [kind |-> "suffix",
        alts |-> << <<"p", "r", "o", "o", "f">>, <<"r", "e", "s", "i", "s", "t", "a", "n", "t">>, <<"f", "r", "e", "e">>, <<"w", "i", "s", "e">>, <<"l", "i", "k", "e">>, <<"w", "o", "r", "t", "h", "y">> >>] >>

\* word.match(pattern).slice(1): the two groups, or <<>> when the pattern fails.
\* A greedy (\w+) in front leaves the shortest alternative that ends the word; an
\* alternation in front takes the first alternative, in list order, that fits.
PatternGroups(word, p) ==
    IF p.kind = "suffix"
    THEN LET fits == {i \in 1..Len(p.alts) :
                        /\ EndsWith(word, p.alts[i])
                        /\ Len(word) > Len(p.alts[i])
                        /\ AllWordChars(DropLast(word, Len(p.alts[i])))}
         IN  IF fits = {} THEN <<>>
             ELSE LET alt == p.alts[CHOOSE i \in fits : \A j \in fits : Len(p.alts[i]) <= Len(p.alts[j])]
                  IN  <<DropLast(word, Len(alt)), alt>>
    ELSE LET fits == {i \in 1..Len(p.alts) :
                        /\ StartsWith(word, p.alts[i])
                        /\ Len(word) > Len(p.alts[i])
                        /\ AllWordChars(DropFirst(word, Len(p.alts[i])))}
         IN  IF fits = {} THEN <<>>
             ELSE LET alt == p.alts[Min(fits)]
                  IN  <<alt, DropFirst(word, Len(alt))>>

\* match.slice(1).filter(p => p.length >= 3)
PatternParts(word, p) == SelectSeq(PatternGroups(word, p), LAMBDA g : Len(g) >= 3)

\* PatternSucceeds content with one part that directMatch finds
PatternSucceeds_AnyPart(word, p) ==
    LET parts == PatternParts(word, p)
    IN  /\ Len(parts) >= 2
        /\ \E i \in 1..Len(parts) : directMatch(parts[i]) # null

\* the pattern yields at least two parts and directMatch finds every one
PatternSucceeds(word, p) ==
    LET parts == PatternParts(word, p)
    IN  /\ Len(parts) >= 2
        /\ \A i \in 1..Len(parts) : directMatch(parts[i]) # null

\* JoinChinese joining the parts from the last to the first
RECURSIVE JoinChinese_Reversed(_, _)
JoinChinese_Reversed(decomposition, i) ==
    IF i > Len(decomposition) THEN <<>>
    ELSE JoinChinese_Reversed(decomposition, i + 1)
         \o (IF decomposition[i].chinese = Undefined THEN <<>> ELSE decomposition[i].chinese)

\* decomposition.map(d => d.chinese).join(''): join renders undefined as ''
RECURSIVE JoinChinese(_, _)
JoinChinese(decomposition, i) ==
    IF i > Len(decomposition) THEN <<>>
    ELSE (IF decomposition[i].chinese = Undefined THEN <<>> ELSE decomposition[i].chinese)
         \o JoinChinese(decomposition, i + 1)

CompoundOf(word, p) ==
    LET parts == PatternParts(word, p)
        decomposition == [i \in 1..Len(parts) |->
                             [part |-> parts[i], type |-> "component",
                              chinese |-> chineseOf(directMatch(parts[i])),
                              match |-> directMatch(parts[i])]]
    IN  [confidence |-> Frac(75, 100),
         result |-> [type |-> "entry", english |-> word,
                     chinese |-> JoinChinese(decomposition, 1), pinyin |-> "",
                     category |-> "Compound", priority |-> 4, compound |-> TRUE],
         decomposition |-> decomposition]

\* analyzeCompoundWord giving up behind the first pattern that matches
analyzeCompoundWord_FirstMatchOnly(word) ==
    IF Len(word) < 6 THEN null
    ELSE LET matching == {i \in 1..Len(Patterns) : PatternGroups(word, Patterns[i]) # <<>>}
         IN  IF matching = {} THEN null
             ELSE IF PatternSucceeds(word, Patterns[Min(matching)])
                  THEN CompoundOf(word, Patterns[Min(matching)])
                  ELSE null

analyzeCompoundWord(word) ==
    IF Len(word) < 6 THEN null
    ELSE LET ok == {i \in 1..Len(Patterns) : PatternSucceeds(word, Patterns[i])}
         IN  IF ok = {} THEN null ELSE CompoundOf(word, Patterns[Min(ok)])

(***************************************************************************)
(* IntelligentWordAnalyzer.analyze.                                        *)
(***************************************************************************)
\* this.cache.set(lowerWord, analysis)
CachePut(c, lowerWord, analysis) == Put(c, lowerWord, analysis)

\* analyze on a cache miss: the analysis object it returns (and caches), or Threw
analyzeMiss(word, lowerWord, timestamp) ==
    LET analysis == [original |-> word, normalized |-> lowerWord, found |-> FALSE,
                     confidence |-> Zero, matchType |-> "not_found", result |-> null,
                     decomposition |-> <<>>, suggestions |-> <<>>, timestamp |-> timestamp]
        direct == directMatch(lowerWord)
    IN  IF direct # null
        THEN [analysis EXCEPT !.found = TRUE, !.confidence = One, !.matchType = "direct",
                              !.result = direct]
        ELSE
    LET inflectedMatch == matchInflections(lowerWord)
    IN  IF inflectedMatch = Threw THEN Threw
        ELSE IF inflectedMatch # null
        THEN [analysis EXCEPT !.found = TRUE, !.confidence = Frac(95, 100),
                              !.matchType = "inflection", !.result = inflectedMatch.result,
                              !.decomposition = inflectedMatch.decomposition]
        ELSE
    LET affixMatch == matchWithAffixes(lowerWord)
    IN  IF affixMatch = Threw THEN Threw
        ELSE IF affixMatch # null
        THEN [analysis EXCEPT !.found = TRUE, !.confidence = affixMatch.confidence,
                              !.matchType = affixMatch.type, !.result = affixMatch.result,
                              !.decomposition = affixMatch.decomposition]
        ELSE
    LET similarMatch == findSimilarWords(lowerWord)
    IN  IF similarMatch = Threw THEN Threw
        ELSE IF similarMatch # null
        THEN [analysis EXCEPT !.found = TRUE, !.confidence = similarMatch.confidence,
                              !.matchType = "similar", !.result = similarMatch.result,
                              !.suggestions = similarMatch.suggestions]
        ELSE
    LET compoundMatch == analyzeCompoundWord(lowerWord)
    IN  IF compoundMatch # null
        THEN [analysis EXCEPT !.found = TRUE, !.confidence = compoundMatch.confidence,
                              !.matchType = "compound", !.result = compoundMatch.result,
                              !.decomposition = compoundMatch.decomposition]
        ELSE analysis

(***************************************************************************)
(* The second script: appState.database and findWordInDatabase.  Of        *)
(* appState only the database is kept: the functions below read and write  *)
(* nothing else of it.  A property an object does not have is a field its  *)
(* record does not have.                                                   *)
(***************************************************************************)
HasField(obj, f) == f \in DOMAIN obj

\* obj.f = v
SetField(obj, f, v) == [g \in DOMAIN obj \cup {f} |-> IF g = f THEN v ELSE obj[g]]

Quote == <<"\"">>

\* the entries loadFallbackData embeds (pinyin without its tone marks)
FallbackData ==
    << [type |-> "entry", english |-> <<"p", "h", "o", "t", "o", "g", "r", "a", "p", "h", "y">>, chinese |-> <<"U6444", "U5F71">>, pinyin |-> "she ying",
        category |-> "Modern/Abstract", priority |-> 3,
        analysis |-> [structure |-> <<"p", "h", "o", "t", "o", " ", "(">> \o <<"U5149">> \o <<")", " ", "+", " ", "g", "r", "a", "p", "h", "y", " ", "(">> \o <<"U5199">> \o <<")">>,
                      morphemes |-> <<<<"p", "h", "o", "t", "o">>, <<"g", "r", "a", "p", "h", "y">>>>,
                      meaning |-> <<"U5149", "U5199">> \o <<" ", "-", ">", " ">> \o <<"U6444", "U5F71">>,
                      matchType |-> "classical_compound"]],
       [type |-> "entry", english |-> <<"d", "e", "m", "o", "c", "r", "a", "c", "y">>, chinese |-> <<"U6C11", "U4E3B">>, pinyin |-> "min zhu",
        category |-> "Modern/Abstract", priority |-> 3,
        analysis |-> [structure |-> <<"d", "e", "m", "o", " ", "(">> \o <<"U6C11">> \o <<")", " ", "+", " ", "c", "r", "a", "c", "y", " ", "(">> \o <<"U6CBB">> \o <<")">>,
                      morphemes |-> <<<<"d", "e", "m", "o">>, <<"c", "r", "a", "c", "y">>>>,
                      meaning |-> <<"U6C11", "U6CBB">> \o <<" ", "-", ">", " ">> \o <<"U6C11", "U4E3B">>,
                      matchType |-> "classical_compound"]] >>

\* loadFallbackData(): appState.database = [ ... ]
loadFallbackData(state) == [state EXCEPT !.database = FallbackData]

\* appState.database.find(item => item.english.toLowerCase() === key): its index, 0 when none
FindIndex(database, key) ==
    LET hits == {i \in 1..Len(database) : toLowerCase(database[i].english) = key}
    IN  IF hits = {} THEN 0 ELSE Min(hits)

LemmaSuffixes == <<<<"s">>, <<"e", "s">>, <<"e", "d">>, <<"i", "n", "g">>, <<"l", "y">>, <<"m", "e", "n", "t">>, <<"n", "e", "s", "s">>, <<"t", "i", "o", "n">>>>

LemmaPrefixes == <<<<"u", "n">>, <<"d", "i", "s">>, <<"r", "e">>, <<"p", "r", "e">>, <<"m", "i", "s">>, <<"o", "v", "e", "r">>, <<"u", "n", "d", "e", "r">>>>

\* what the suffix loop pushes for one suffix
SuffixLemmas(word, suffix) ==
    IF EndsWith(word, suffix) /\ Len(word) > Len(suffix) + 2
    THEN <<DropLast(word, Len(suffix))>>
         \o (IF suffix = <<"e", "s">> /\ EndsWith(word, <<"i", "e", "s">>) THEN <<DropLast(word, 3) \o <<"y">>>> ELSE <<>>)
         \o (IF suffix = <<"e", "d">> /\ EndsWith(word, <<"i", "e", "d">>) THEN <<DropLast(word, 3) \o <<"y">>>> ELSE <<>>)
    ELSE <<>>

\* what the prefix loop pushes for one prefix
PrefixLemmas(word, prefix) ==
    IF StartsWith(word, prefix) /\ Len(word) > Len(prefix) + 2
    THEN <<DropFirst(word, Len(prefix))>>
    ELSE <<>>

RECURSIVE AllSuffixLemmas(_, _)
AllSuffixLemmas(word, i) ==
    IF i > Len(LemmaSuffixes) THEN <<>>
    ELSE SuffixLemmas(word, LemmaSuffixes[i]) \o AllSuffixLemmas(word, i + 1)

RECURSIVE AllPrefixLemmas(_, _)
AllPrefixLemmas(word, i) ==
    IF i > Len(LemmaPrefixes) THEN <<>>
    ELSE PrefixLemmas(word, LemmaPrefixes[i]) \o AllPrefixLemmas(word, i + 1)

\* [...new Set(list)]: the first occurrence of each element, in order
RECURSIVE Unique(_, _, _)
Unique(list, i, acc) ==
    IF i > Len(list) THEN acc
    ELSE Unique(list, i + 1,
                IF \E j \in 1..Len(acc) : acc[j] = list[i] THEN acc ELSE Append(acc, list[i]))

getLemmas(word) ==
    Unique(<<word>> \o AllSuffixLemmas(word, 1) \o AllPrefixLemmas(word, 1), 1, <<>>)

\* the loop of findFuzzyMatch from entry i on
RECURSIVE FuzzyFrom(_, _, _, _, _)
FuzzyFrom(word, database, i, bestMatch, bestSimilarity) ==
    IF i > Len(database) THEN bestMatch
    ELSE LET entry == database[i]
             similarity == calculateSimilarity(word, toLowerCase(entry.english))
         IN  IF Gt(similarity, bestSimilarity) /\ Gt(similarity, Frac(6, 10))
             THEN FuzzyFrom(word, database, i + 1, SetField(entry, "similarity", similarity), similarity)
             ELSE FuzzyFrom(word, database, i + 1, bestMatch, bestSimilarity)

findFuzzyMatch(database, word) == FuzzyFrom(word, database, 1, null, Zero)

\* the entry an exact match returns: entry.analysis kept or created, its confidence set
ExactEntry(entry, word) ==
    LET analysis == IF HasField(entry, "analysis") THEN entry.analysis
                    ELSE [structure |-> <<"D", "i", "r", "e", "c", "t", " ", "m", "a", "t", "c", "h">>, morphemes |-> <<word>>,
                          meaning |-> <<"E", "x", "a", "c", "t", " ", "c", "o", "r", "r", "e", "s", "p", "o", "n", "d", "e", "n", "c", "e">>, matchType |-> "direct"]
    IN  SetField(entry, "analysis", SetField(analysis, "confidence", One))

\* the entry a lemma match returns: entry.analysis replaced
LemmaEntry(entry, lemma) ==
    SetField(entry, "analysis",
             [structure |-> <<"B", "a", "s", "e", " ", "f", "o", "r", "m", ":", " ">> \o lemma, morphemes |-> <<lemma>>,
              meaning |-> <<"F", "r", "o", "m", " ", "b", "a", "s", "e", " ", "w", "o", "r", "d", " ">> \o Quote \o lemma \o Quote,
              matchType |-> "lemma", confidence |-> Frac(9, 10)])

\* the copy a fuzzy match returns, with its analysis
FuzzyEntry(entry) ==
    SetField(entry, "analysis",
             [structure |-> <<"S", "i", "m", "i", "l", "a", "r", " ", "t", "o", " ">> \o Quote \o entry.english \o Quote,
              morphemes |-> <<entry.english>>,
              meaning |-> <<"C", "l", "o", "s", "e", " ", "m", "a", "t", "c", "h", " ", "t", "o", " ">> \o Quote \o entry.english \o Quote,
              matchType |-> "fuzzy",
              confidence |-> IF entry.similarity = Zero THEN Frac(7, 10) ELSE entry.similarity])

\* findWordInDatabase(word) over `database`: the entry it returns (null when none)
\* and the database it leaves
findWordInDatabase(database, word) ==
    LET i == FindIndex(database, word)
    IN  IF i # 0
        THEN [entry |-> ExactEntry(database[i], word),
              database |-> [database EXCEPT ![i] = ExactEntry(database[i], word)]]
        ELSE
    LET lemmas == getLemmas(word)
        hits == {k \in 1..Len(lemmas) : FindIndex(database, lemmas[k]) # 0}
    IN  IF hits # {}
        THEN LET lemma == lemmas[Min(hits)]
                 j == FindIndex(database, lemma)
             IN  [entry |-> LemmaEntry(database[j], lemma),
                  database |-> [database EXCEPT ![j] = LemmaEntry(database[j], lemma)]]
        ELSE
    LET entry == findFuzzyMatch(database, word)
    IN  IF entry # null
        THEN [entry |-> FuzzyEntry(entry), database |-> database]
        ELSE [entry |-> null, database |-> database]

(***************************************************************************)
(* The inputs of the exploration: the entries a load may deliver and the   *)
(* strings a caller may pass to analyze.                                   *)
(***************************************************************************)
EntryPool ==
    { Entry(<<"c", "a", "t">>, <<"U732B">>), Entry(<<"C", "a", "t">>, <<"U72F8">>), Entry(<<"c", "a", "t", "s">>, <<"U7FA4">>), Entry(<<"c", "a", "t", "e">>, <<"U98DF">>),
      Entry(<<"f", "i", "t", "l", "y">>, <<"U5B9C">>), Entry(<<"u", "n", "f", "i", "t">>, <<"U5F31">>),
      Entry(<<"p", "h", "o", "t", "o">>, <<"U5149">>), Entry(<<"g", "r", "a", "p", "h", "y">>, <<"U5199">>), Entry(<<"b", "i", "o">>, <<"U751F">>) }

\* the lexicons: the sequences of at most MaxLex different entries
Lexicons ==
    UNION { {w \in [1..n -> EntryPool] : \A i, j \in 1..n : w[i] = w[j] => i = j} : n \in 0..MaxLex }

RawWords ==
    { <<>>, <<" ", " ">>, <<"c", "a", "t">>, <<"C", "a", "t">>, <<" ", "c", "a", "t", " ">>, <<"c", "a", "t", "s">>, <<"c", "a", "t", "e", "s">>, <<"r", "e", "c", "a", "t">>, <<"c", "a", "t", "l", "y">>,
      <<"u", "n", "f", "i", "t", "l", "y">>, <<"c", "t", "a">>, <<"c", "a", "s", "t">>, <<"p", "h", "o", "t", "o", "g", "r", "a", "p", "h", "y">>, <<"b", "i", "o", "g", "r", "a", "p", "h", "y">> }

\* entries for the index and the fuzzy search: lengths 2, 3, 5 and 8 over the
\* same letters, the two halves of a compound, a three-letter compound prefix,
\* and an entry named like an index key
IndexPool ==
    { Entry(<<"a", "b">>, <<"U7532">>), Entry(<<"a", "b", "c">>, <<"U4E59">>), Entry(<<"a", "b", "c", "d", "e">>, <<"U4E19">>), Entry(<<"a", "b", "c", "d", "a", "b", "c", "d">>, <<"U4E01">>),
      Entry(<<"p", "s", "y", "c", "h">>, <<"U5FC3">>), Entry(<<"o", "l", "o", "g", "y">>, <<"U5B66">>), Entry(<<"b", "i", "o">>, <<"U751F">>),
      Entry(<<"l", "e", "n", "g", "t", "h", "_", "3">>, <<"U957F">>) }

\* a lexicon with six candidates for one word
LongLexicon ==
    << Entry(<<"a", "b", "c", "d", "e">>, <<"U4E19">>), Entry(<<"a", "b", "c">>, <<"U4E59">>), Entry(<<"b", "c", "d">>, <<"U620A">>),
       Entry(<<"a", "b", "d", "c">>, <<"U5DF1">>), Entry(<<"d", "c", "b", "a">>, <<"U5E9A">>), Entry(<<"a", "b", "c", "d", "a">>, <<"U8F9B">>) >>

IndexLexicons ==
    {LongLexicon} \cup
    UNION { {w \in [1..n -> IndexPool] : \A i, j \in 1..n : w[i] = w[j] => i = j} : n \in 0..MaxLex }

IndexWords ==
    { <<"a", "b", "c">>, <<"a", "b", "c", "d">>, <<"a", "b", "c", "a", "b", "c", "a">>, <<"p", "s", "y", "c", "h", "o", "l", "o", "g", "y">>, <<"b", "i", "o", "o", "l", "o", "g", "y">>, <<"l", "e", "n", "g", "t", "h", "_", "3">>, <<"c", "o", "n", "s", "t", "r", "u", "c", "t", "o", "r">>,
      <<"b", "i", "o", "l", "e", "t", "t", "e", "r", "_", "b">> }

\* the entries loadMappingData may deliver: without and with an analysis
DatabasePool ==
    { Entry(<<"c", "a", "t">>, <<"U732B">>), Entry(<<"c", "a", "r", "t", "s">>, <<"U8F66">>),
      SetField(Entry(<<"a", "c", "t">>, <<"U884C">>), "analysis",
               [structure |-> <<"a", "c", "t">>, morphemes |-> <<<<"a", "c", "t">>>>, meaning |-> <<"U884C">>,
                matchType |-> "root"]) }

\* the databases: the sequences of at most MaxDb different entries
Databases ==
    UNION { {d \in [1..n -> DatabasePool] : \A i, j \in 1..n : d[i] = d[j] => i = j} : n \in 0..MaxDb }

\* the words of findWordInDatabase: trimmed and lowercased by the caller
DatabaseWords ==
    { <<"c", "a", "t">>, <<"c", "a", "t", "s">>, <<"r", "e", "a", "c", "t">>, <<"c", "a", "r", "t">>, <<"c", "t", "a">>, <<"c", "a">>, <<"d", "o", "g">>, <<"p", "h", "o", "t", "o", "g", "r", "a", "p", "h", "y">> }

(***************************************************************************)
(* The state machine.                                                      *)
(***************************************************************************)
NoCall == [type |-> "none"]

Init ==
    /\ WORD_DATABASE = <<>>
    /\ ROOT_DATABASE = EmptyObject
    /\ MORPHEME_RULES = EmptyRules
    /\ phase = "start"
    /\ cache = EmptyObject
    /\ arg = <<>>
    /\ ret = NoCall
    /\ now = 0
    /\ first = EmptyObject
    /\ simCall = NoCall
    /\ appState = [database |-> <<>>]
    /\ mapping = "start"
    /\ dbCall = NoCall

\* loadDatabase when the fetch delivers `words`: extractRootData runs; a TypeError
\* it raises is caught, the index stays as far as it was built and the fallback
\* loader runs
LoadDatabase(words) ==
    /\ phase = "start"
    /\ WORD_DATABASE' = words
    /\ ROOT_DATABASE' = extractRootData(words).db
    /\ MORPHEME_RULES' = LoadedRules
    /\ phase' = IF extractRootData(words).threw THEN "fallback" ELSE "loaded"
    /\ appState' = IF extractRootData(words).threw THEN loadFallbackData(appState) ELSE appState
    /\ UNCHANGED <<cache, arg, ret, now, first, simCall, mapping, dbCall>>

\* loadDatabase when the fetch fails: extractRootData never runs, the fallback
\* loader does
LoadFails ==
    /\ phase = "start"
    /\ phase' = "fallback"
    /\ appState' = loadFallbackData(appState)
    /\ UNCHANGED <<WORD_DATABASE, ROOT_DATABASE, MORPHEME_RULES, cache, arg, ret, now, first, simCall, mapping, dbCall>>

\* analyzer.analyze(word): what it returns and what it leaves in the cache
AnalyzeOutcome(word) ==
    LET lowerWord == trim(toLowerCase(word))
    IN  IF lowerWord \in DOMAIN cache
        THEN [ret |-> cache[lowerWord], cache |-> cache]
        ELSE LET analysis == analyzeMiss(word, lowerWord, now)
             IN  [ret |-> analysis,
                  cache |-> IF analysis = Threw THEN cache
                            ELSE CachePut(cache, lowerWord, analysis)]

\* analyzer.analyze(word)
Analyze(word) ==
    /\ phase # "start"
    /\ \/ trim(toLowerCase(word)) \in DOMAIN cache
       \/ Cardinality(DOMAIN cache) < MaxCache
    /\ arg' = word
    /\ ret' = AnalyzeOutcome(word).ret
    /\ cache' = AnalyzeOutcome(word).cache
    /\ first' = IF ret' = Threw \/ trim(toLowerCase(word)) \in DOMAIN first THEN first
                ELSE Put(first, trim(toLowerCase(word)), ret')
    /\ UNCHANGED <<WORD_DATABASE, ROOT_DATABASE, MORPHEME_RULES, phase, now, simCall, appState, mapping, dbCall>>

\* new IntelligentWordAnalyzer(): the constructor starts an empty cache
NewAnalyzer ==
    /\ phase # "start"
    /\ cache # EmptyObject
    /\ cache' = EmptyObject
    /\ UNCHANGED <<WORD_DATABASE, ROOT_DATABASE, MORPHEME_RULES, phase, arg, ret, now, first, simCall, appState, mapping, dbCall>>

\* a millisecond passes
Tick ==
    /\ now < MaxClock
    /\ now' = now + 1
    /\ UNCHANGED <<WORD_DATABASE, ROOT_DATABASE, MORPHEME_RULES, phase, cache, arg, ret, first, simCall, appState, mapping, dbCall>>

\* one call of each similarity function on the same two strings
CalculateSimilarity(str1, str2) ==
    /\ simCall = NoCall
    /\ simCall' = [str1 |-> str1, str2 |-> str2,
                   method |-> Analyzer_calculateSimilarity(str1, str2),
                   global |-> calculateSimilarity(str1, str2)]
    /\ UNCHANGED <<WORD_DATABASE, ROOT_DATABASE, MORPHEME_RULES, phase, cache, arg, ret, now, first, appState, mapping, dbCall>>

\* loadMappingData when the fetch delivers `data`
LoadMappingData(data) ==
    /\ mapping = "start"
    /\ mapping' = "loaded"
    /\ appState' = [appState EXCEPT !.database = data]
    /\ UNCHANGED <<WORD_DATABASE, ROOT_DATABASE, MORPHEME_RULES, phase, cache, arg, ret, now, first, simCall, dbCall>>

\* loadMappingData when the fetch fails: the fallback entries
LoadMappingFails ==
    /\ mapping = "start"
    /\ mapping' = "fallback"
    /\ appState' = loadFallbackData(appState)
    /\ UNCHANGED <<WORD_DATABASE, ROOT_DATABASE, MORPHEME_RULES, phase, cache, arg, ret, now, first, simCall, dbCall>>

\* findWordInDatabase(word): the entry it returns and what it leaves in the database
FindWordInDatabase(word) ==
    /\ mapping # "start"
    /\ dbCall' = [word |-> word, entry |-> findWordInDatabase(appState.database, word).entry]
    /\ appState' = [appState EXCEPT !.database = findWordInDatabase(appState.database, word).database]
    /\ UNCHANGED <<WORD_DATABASE, ROOT_DATABASE, MORPHEME_RULES, phase, cache, arg, ret, now, first, simCall, mapping>>

\* one analyzer over one load, within one millisecond
Next ==
    \/ \E words \in Lexicons : LoadDatabase(words)
    \/ LoadFails
    \/ \E word \in RawWords : Analyze(word)

Spec == Init /\ [][Next]_vars

\* the words of the sessions: normalized already, so that two calls on the same
\* normalized word are two calls with the same input
SessionWords == { <<"c", "a", "t">>, <<"c", "a", "t", "s">>, <<"c", "t", "a">> }

\* analyzers that follow one another over one load, while time passes
NextSessions ==
    \/ \E words \in Lexicons : LoadDatabase(words)
    \/ LoadFails
    \/ \E word \in SessionWords : Analyze(word)
    \/ NewAnalyzer
    \/ Tick

SpecSessions == Init /\ [][NextSessions]_vars

\* the strings of at most MaxStr characters over a, b and the space
SimStrings == UNION { [1..n -> {"a", "b", " "}] : n \in 0..MaxStr }

\* the similarity functions applied to every pair of strings
NextSimilarity == \E str1, str2 \in SimStrings : CalculateSimilarity(str1, str2)

SpecSimilarity == Init /\ [][NextSimilarity]_vars

\* one analyzer over one load of a lexicon of the index pool
NextIndex ==
    \/ \E words \in IndexLexicons : LoadDatabase(words)
    \/ LoadFails
    \/ \E word \in IndexWords : Analyze(word)

SpecIndex == Init /\ [][NextIndex]_vars

\* the second script: one load of the mapping data, then lookups
NextDatabase ==
    \/ \E data \in Databases : LoadMappingData(data)
    \/ LoadMappingFails
    \/ \E word \in DatabaseWords : FindWordInDatabase(word)

SpecDatabase == Init /\ [][NextDatabase]_vars

(***************************************************************************)
(* What the properties speak of.                                           *)
(***************************************************************************)
\* the last call of analyze returned an analysis object
Returned == ret # NoCall /\ ret # Threw

\* the lowercased english of the entries of the lexicon
LexiconKeys == {toLowerCase(WORD_DATABASE[i].english) : i \in 1..Len(WORD_DATABASE)}

\* the entry loaded last among those whose lowercased english is `key`
LastEntry(key) ==
    WORD_DATABASE[CHOOSE i \in 1..Len(WORD_DATABASE) :
                      /\ toLowerCase(WORD_DATABASE[i].english) = key
                      /\ \A j \in 1..Len(WORD_DATABASE) :
                             toLowerCase(WORD_DATABASE[j].english) = key => j <= i]

\* some prefix of the table splits `w` over a stem of more than two characters
\* that is in the lexicon
HasPrefixSplit(w) ==
    \E i \in 1..Len(Prefixes) :
        /\ StartsWith(w, Prefixes[i])
        /\ Len(w) - Len(Prefixes[i]) > 2
        /\ DropFirst(w, Len(Prefixes[i])) \in LexiconKeys

HasSuffixSplit(w) ==
    \E i \in 1..Len(Suffixes) :
        /\ EndsWith(w, Suffixes[i])
        /\ Len(w) - Len(Suffixes[i]) > 2
        /\ DropLast(w, Len(Suffixes[i])) \in LexiconKeys

\* the inflection suffixes, by their place in the table, that end `w` behind a
\* stem that is in the lexicon
InflectionSplits(w) ==
    {k \in 1..Len(Inflections) :
        EndsWith(w, Inflections[k]) /\ DropLast(w, Len(Inflections[k])) \in LexiconKeys}

\* the strategies, in the order of the cascade, that succeed on `w`
Succeeding(w) ==
    {k \in 1..6 :
        \/ k = 1 /\ directMatch(w) # null
        \/ k = 2 /\ matchInflections(w) # null
        \/ k = 3 /\ PrefixHits(w) # {}
        \/ k = 4 /\ SuffixHits(w) # {}
        \/ k = 5 /\ findSimilarWords(w) # null
        \/ k = 6 /\ analyzeCompoundWord(w) # null}

StrategyKind == <<"direct", "inflection", "prefixed", "suffixed", "similar", "compound">>

StrategyConfidence(k, w) ==
    IF k = 5 THEN findSimilarWords(w).confidence
    ELSE <<One, Frac(95, 100), Frac(85, 100), Frac(80, 100), Zero, Frac(75, 100)>>[k]

(***************************************************************************)
(* C1.  Over a loaded lexicon, the analysis analyze returns for a word is  *)
(* the outcome of the first strategy, in the order direct, inflection,     *)
(* prefix, suffix, fuzzy, compound, that succeeds on the normalized word,  *)
(* with that strategy's confidence (1, 0.95, 0.85, 0.80, the similarity of *)
(* the top candidate, 0.75); and a word that neither direct lookup nor an  *)
(* inflection resolves and that has both a prefix split and a suffix split *)
(* over lexicon stems is reported as prefixed.                             *)
(***************************************************************************)
C1_FirstStrategyWins ==
    (phase = "loaded" /\ Returned) =>
        LET w == ret.normalized
            S == Succeeding(w)
        IN  /\ IF S = {} THEN ret.matchType = "not_found" /\ ~ret.found
               ELSE /\ ret.found
                    /\ ret.matchType = StrategyKind[Min(S)]
                    /\ ret.confidence = StrategyConfidence(Min(S), w)
            /\ (HasPrefixSplit(w) /\ HasSuffixSplit(w) /\ w \notin LexiconKeys
                    /\ InflectionSplits(w) = {})
                   => ret.matchType = "prefixed" /\ ret.confidence = <<17, 20>>

\* a word with both splits was analyzed
C1_Witness ==
    /\ phase = "loaded" /\ Returned
    /\ HasPrefixSplit(ret.normalized) /\ HasSuffixSplit(ret.normalized)
    /\ ret.matchType = "prefixed"

(***************************************************************************)
(* C2 as claimed.  For every entry E of the loaded lexicon, analyze of     *)
(* E.english returns found, direct, confidence 1 and a result whose        *)
(* chinese is E.chinese.                                                   *)
(***************************************************************************)
C2_Original ==
    (phase = "loaded" /\ ret # NoCall) =>
        \A i \in 1..Len(WORD_DATABASE) :
            arg = WORD_DATABASE[i].english =>
                /\ ret # Threw
                /\ ret.found /\ ret.matchType = "direct" /\ ret.confidence = One
                /\ chineseOf(ret.result) = WORD_DATABASE[i].chinese

(***************************************************************************)
(* C2 amended.  For every entry E of the loaded lexicon, analyze of        *)
(* E.english returns found, direct, confidence 1, and the result is the    *)
(* entry loaded last among those whose lowercased english equals E's: its  *)
(* chinese is E.chinese unless a later entry has the same key.             *)
(***************************************************************************)
C2_LastEntryWins ==
    (phase = "loaded" /\ ret # NoCall) =>
        \A i \in 1..Len(WORD_DATABASE) :
            arg = WORD_DATABASE[i].english =>
                /\ ret # Threw
                /\ ret.found /\ ret.matchType = "direct" /\ ret.confidence = One
                /\ ret.result = LastEntry(toLowerCase(WORD_DATABASE[i].english))

\* the english of an entry that a later entry shadows was analyzed
C2_Witness ==
    /\ phase = "loaded" /\ Returned
    /\ \E i, j \in 1..Len(WORD_DATABASE) :
           /\ i < j
           /\ arg = WORD_DATABASE[i].english
           /\ toLowerCase(WORD_DATABASE[j].english) = toLowerCase(arg)
           /\ WORD_DATABASE[j].chinese # WORD_DATABASE[i].chinese
           /\ ret.result = WORD_DATABASE[j]

(***************************************************************************)
(* C3 as claimed.  For every word W and inflection suffix S such that W    *)
(* ends with S and W minus S is a lexicon entry, analyze(W) returns        *)
(* inflection with confidence 0.95 and a base part that carries the        *)
(* chinese of that stem entry.                                             *)
(***************************************************************************)
C3_Original ==
    (phase = "loaded" /\ Returned) =>
        \A k \in InflectionSplits(ret.normalized) :
            /\ ret.matchType = "inflection" /\ ret.confidence = <<19, 20>>
            /\ Len(ret.decomposition) >= 1
            /\ ret.decomposition[1].type = "base"
            /\ ret.decomposition[1].chinese =
                   LastEntry(DropLast(ret.normalized, Len(Inflections[k]))).chinese

(***************************************************************************)
(* C3 amended.  For every word W that is not itself a lexicon key and has  *)
(* an inflection suffix S with W minus S a lexicon entry, analyze(W)       *)
(* returns inflection with confidence 0.95, and the base part is the stem  *)
(* left by the first such suffix in the order s, es, ed, ing, er, est,     *)
(* carrying the chinese of the entry loaded last under that stem.          *)
(***************************************************************************)
C3_FirstInflectionWins ==
    (phase = "loaded" /\ Returned) =>
        LET w == ret.normalized
        IN  (w \notin LexiconKeys /\ InflectionSplits(w) # {}) =>
                LET stem == DropLast(w, Len(Inflections[Min(InflectionSplits(w))]))
                IN  /\ ret.matchType = "inflection" /\ ret.confidence = <<19, 20>>
                    /\ ret.found /\ ret.result = LastEntry(stem)
                    /\ ret.decomposition[1].type = "base"
                    /\ ret.decomposition[1].part = stem
                    /\ ret.decomposition[1].chinese = LastEntry(stem).chinese

\* a word that two inflection suffixes split over lexicon stems was analyzed
C3_Witness ==
    /\ phase = "loaded" /\ Returned
    /\ ret.matchType = "inflection"
    /\ Cardinality(InflectionSplits(ret.normalized)) >= 2

(***************************************************************************)
(* C4.  For every result of analyze whose matchType is inflection,         *)
(* prefixed or suffixed, the decomposition has exactly two parts and their *)
(* part strings, concatenated in order, are the normalized input word.     *)
(***************************************************************************)
C4_PartsRebuildWord ==
    (Returned /\ ret.matchType \in {"inflection", "prefixed", "suffixed"}) =>
        /\ Len(ret.decomposition) = 2
        /\ ret.decomposition[1].part \o ret.decomposition[2].part = ret.normalized
        /\ ret.normalized = trim(toLowerCase(arg))

\* a suffixed result was returned
C4_Witness ==
    /\ Returned /\ ret.matchType = "suffixed"
    /\ Len(ret.decomposition[1].part) > 2

(***************************************************************************)
(* C5.  Every analysis object that analyze returned or that the cache      *)
(* holds satisfies: found implies confidence > 0 and a result that is not  *)
(* null; matchType not_found implies not found; not found implies          *)
(* confidence 0 and result null.                                           *)
(***************************************************************************)
WellFormed(a) ==
    /\ a.found => (Gt(a.confidence, Zero) /\ a.result # null)
    /\ a.matchType = "not_found" => ~a.found
    /\ ~a.found => (a.confidence = Zero /\ a.result = null)

C5_AnalysisWellFormed ==
    /\ Returned => WellFormed(ret)
    /\ \A w \in DOMAIN cache : WellFormed(cache[w])

\* the cache holds the analysis of a fuzzy match that was just returned
C5_Witness ==
    /\ Returned /\ ret.found /\ ret.matchType = "similar"
    /\ \E w \in DOMAIN cache : cache[w] = ret

(***************************************************************************)
(* C6 as claimed.  Two calls of analyze on the same normalized word return *)
(* analysis objects that agree in every field, whether the second call is  *)
(* served from the cache or recomputed by a fresh analyzer over the same   *)
(* lexicon: what a call returns is what the first call on that word        *)
(* returned.                                                               *)
(***************************************************************************)
C6_Original ==
    (Returned /\ ret.normalized \in DOMAIN first) => ret = first[ret.normalized]

(***************************************************************************)
(* C7.  Both similarity functions are symmetric: the value of a call on    *)
(* (str1, str2) is the value on (str2, str1), the empty string and strings *)
(* of equal length included.                                               *)
(***************************************************************************)
C7_SimilaritySymmetric ==
    simCall # NoCall =>
        /\ simCall.method = Analyzer_calculateSimilarity(simCall.str2, simCall.str1)
        /\ simCall.global = calculateSimilarity(simCall.str2, simCall.str1)

\* two different strings of one length that share some characters, not all
C7_Witness ==
    /\ simCall # NoCall
    /\ simCall.str1 # simCall.str2
    /\ Len(simCall.str1) = Len(simCall.str2)
    /\ Gt(simCall.method, Zero) /\ Gt(Frac(9, 10), simCall.method)
    /\ simCall.global = simCall.method

(***************************************************************************)
(* C8 as claimed.  The similarity of a string with itself is exactly 1.0,  *)
(* for the analyzer's method and for the global function.                  *)
(***************************************************************************)
C8_Original ==
    (simCall # NoCall /\ simCall.str1 = simCall.str2) =>
        /\ simCall.method = One
        /\ simCall.global = One

(***************************************************************************)
(* C9.  A result of matchType compound has at least two parts, each of at  *)
(* least three characters and each found by direct lookup (the part's      *)
(* match is what direct lookup returns for it), and the parts are all the  *)
(* parts of the word: concatenated in order they are the normalized word.  *)
(***************************************************************************)
RECURSIVE ConcatParts(_, _)
ConcatParts(decomposition, i) ==
    IF i > Len(decomposition) THEN <<>>
    ELSE decomposition[i].part \o ConcatParts(decomposition, i + 1)

C9_NoPartialCompound ==
    (Returned /\ ret.matchType = "compound") =>
        /\ Len(ret.decomposition) >= 2
        /\ \A j \in 1..Len(ret.decomposition) :
               /\ Len(ret.decomposition[j].part) >= 3
               /\ directMatch(ret.decomposition[j].part) # null
               /\ ret.decomposition[j].match = directMatch(ret.decomposition[j].part)
               /\ phase = "loaded" => ret.decomposition[j].part \in LexiconKeys
        /\ ConcatParts(ret.decomposition, 1) = ret.normalized

\* a compound result whose parts are entries of the lexicon
C9_Witness ==
    /\ phase = "loaded" /\ Returned /\ ret.matchType = "compound"
    /\ \A j \in 1..Len(ret.decomposition) : ret.decomposition[j].match \in
           {WORD_DATABASE[i] : i \in 1..Len(WORD_DATABASE)}

(***************************************************************************)
(* C10.  A word of at least six characters that none of direct lookup,     *)
(* inflection, affix and fuzzy matching resolves, and that one of the      *)
(* structural patterns splits into two lexicon entries of at least three   *)
(* characters each, is returned as compound with confidence 0.75, the two  *)
(* parts in word order, and a synthesized result of category Compound      *)
(* whose chinese is the parts' chinese concatenated in word order.  A word *)
(* of fewer than six characters is never returned as compound.             *)
(***************************************************************************)
\* the alternatives of the patterns of one kind
PatternAlts(kind) ==
    UNION { {Patterns[i].alts[j] : j \in 1..Len(Patterns[i].alts)} :
            i \in {i \in 1..Len(Patterns) : Patterns[i].kind = kind} }

\* the places where a pattern cuts `w` into two lexicon entries of length >= 3
CompoundSplits(w) ==
    {k \in 3..(Len(w) - 3) :
        LET a == SubSeq(w, 1, k)
            b == SubSeq(w, k + 1, Len(w))
        IN  /\ a \in LexiconKeys /\ b \in LexiconKeys
            /\ \/ b \in PatternAlts("suffix") /\ AllWordChars(a)
               \/ a \in PatternAlts("prefix") /\ AllWordChars(b)}

NoEarlierStrategy(w) == Succeeding(w) \cap 1..5 = {}

C10_CompoundOfTwoEntries ==
    (phase = "loaded" /\ Returned) =>
        LET w == ret.normalized
        IN  /\ Len(w) < 6 => ret.matchType # "compound"
            /\ (Len(w) >= 6 /\ NoEarlierStrategy(w) /\ CompoundSplits(w) # {}) =>
                   /\ ret.found /\ ret.matchType = "compound" /\ ret.confidence = <<3, 4>>
                   /\ ret.result.category = "Compound"
                   /\ ret.result.english = w
                   /\ \E k \in CompoundSplits(w) :
                          LET a == SubSeq(w, 1, k)
                              b == SubSeq(w, k + 1, Len(w))
                          IN  /\ Len(ret.decomposition) = 2
                              /\ ret.decomposition[1].part = a
                              /\ ret.decomposition[2].part = b
                              /\ ret.decomposition[1].chinese = LastEntry(a).chinese
                              /\ ret.decomposition[2].chinese = LastEntry(b).chinese
                              /\ ret.result.chinese = LastEntry(a).chinese \o LastEntry(b).chinese

\* a word of two entries that no earlier strategy resolves was analyzed
C10_Witness ==
    /\ phase = "loaded" /\ Returned
    /\ Len(ret.normalized) >= 6
    /\ NoEarlierStrategy(ret.normalized)
    /\ CompoundSplits(ret.normalized) # {}
    /\ ret.result.chinese # <<>>

(***************************************************************************)
(* C11 as claimed.  Over every loaded lexicon, analyze of the empty string *)
(* or of a string of whitespace only returns the unknown state: it returns *)
(* an analysis (it does not raise) with found false, confidence 0 and      *)
(* result null.                                                            *)
(***************************************************************************)
C11_Original ==
    (phase = "loaded" /\ ret # NoCall /\ trim(toLowerCase(arg)) = <<>>) =>
        /\ Returned
        /\ ~ret.found
        /\ ret.confidence = Zero
        /\ ret.result = null

(***************************************************************************)
(* C12 as claimed.  In every state the program reaches, after a load that  *)
(* succeeded and after one that failed and ran the fallback loader, a call *)
(* of analyze returns an analysis object: it never raises.                 *)
(***************************************************************************)
C12_Original == ret # NoCall => ret # Threw

(***************************************************************************)
(* C13 as claimed.  When no strategy succeeds on the normalized word,      *)
(* analyze returns, and does not raise, the analysis with found false,     *)
(* matchType not_found, confidence 0, result null, no decomposition and no *)
(* suggestions; suggestions are non-empty only in results of the fuzzy     *)
(* strategy, so a result with found false has none.                        *)
(***************************************************************************)
\* no strategy returns a match for `w`
NoStrategyMatches(w) ==
    /\ directMatch(w) = null
    /\ matchInflections(w) \in {null, Threw}
    /\ matchWithAffixes(w) \in {null, Threw}
    /\ findSimilarWords(w) \in {null, Threw}
    /\ analyzeCompoundWord(w) = null

C13_Original ==
    ret # NoCall =>
        /\ NoStrategyMatches(trim(toLowerCase(arg))) =>
               /\ Returned
               /\ ~ret.found /\ ret.matchType = "not_found" /\ ret.confidence = Zero
               /\ ret.result = null /\ ret.decomposition = <<>> /\ ret.suggestions = <<>>
        /\ (Returned /\ ret.suggestions # <<>>) => ret.matchType = "similar"
        /\ (Returned /\ ~ret.found) => ret.suggestions = <<>>

(***************************************************************************)
(* C14 as claimed.  After any calls of analyze on one analyzer the cache   *)
(* holds exactly one entry for each normalized word queried so far, the    *)
(* words not found included: the word of the last call is cached and the   *)
(* call returned its entry, and each entry is the analysis of the first    *)
(* call on its word, never overwritten or removed afterwards.              *)
(***************************************************************************)
C14_Original ==
    ret # NoCall =>
        /\ trim(toLowerCase(arg)) \in DOMAIN cache
        /\ ret = cache[trim(toLowerCase(arg))]
        /\ DOMAIN cache = DOMAIN first
        /\ \A k \in DOMAIN cache : cache[k] = first[k]

(***************************************************************************)
(* C15 as claimed.  No query changes the loaded lexicon: a call of analyze *)
(* or of findWordInDatabase (the lookup processWord makes) leaves every    *)
(* loaded entry with the fields and field values it had, and the set of    *)
(* entries as it was.                                                      *)
(***************************************************************************)
C15_Original ==
    [][(dbCall' # dbCall \/ ret' # ret \/ arg' # arg) =>
           /\ appState'.database = appState.database
           /\ WORD_DATABASE' = WORD_DATABASE]_vars

(***************************************************************************)
(* C19 as claimed.  The entry findWordInDatabase returns carries the       *)
(* documented confidence of the strategy that found it: 1.0 for an exact   *)
(* match, 0.9 for a match of a lemma, and a value from 0.6 to 0.8 for a    *)
(* fuzzy match.                                                            *)
(***************************************************************************)
\* the word of the last lookup is the english of an entry
ExactFound == FindIndex(appState.database, dbCall.word) # 0

\* some lemma of the word of the last lookup is the english of an entry
LemmaFound ==
    \E k \in 1..Len(getLemmas(dbCall.word)) :
        FindIndex(appState.database, getLemmas(dbCall.word)[k]) # 0

C19_Original ==
    (dbCall # NoCall /\ dbCall.entry # null) =>
        LET confidence == dbCall.entry.analysis.confidence
        IN  IF ExactFound THEN confidence = One
            ELSE IF LemmaFound THEN confidence = <<9, 10>>
            ELSE Geq(confidence, <<3, 5>>) /\ Geq(<<4, 5>>, confidence)

(***************************************************************************)
(* C16 as claimed.  Direct lookup is an exact key match on the entries of  *)
(* the lexicon only: over a loaded lexicon analyze returns a direct match  *)
(* for a word exactly when the word is the lowercased english of a loaded  *)
(* entry, and the result is then an entry with that english; a word that   *)
(* equals an index key such as length_3 is not found directly.             *)
(***************************************************************************)
C16_Original ==
    (phase = "loaded" /\ Returned) =>
        LET w == ret.normalized
        IN  /\ (ret.matchType = "direct") = (w \in LexiconKeys)
            /\ ret.matchType = "direct" =>
                   \E i \in 1..Len(WORD_DATABASE) :
                       /\ toLowerCase(WORD_DATABASE[i].english) = w
                       /\ ret.result = WORD_DATABASE[i]

(***************************************************************************)
(* C17 as claimed.  The candidates the fuzzy strategy ranks are exactly    *)
(* the entries whose english differs in length from the normalized word by *)
(* at most 3, entries of length 1 or 2 included, and whose similarity to   *)
(* the word reaches the threshold.                                         *)
(***************************************************************************)
\* the fuzzy strategy ran for the analysis returned last
FuzzyRan == ret.matchType \in {"similar", "compound", "not_found"}

\* the entries the returned analysis shows as ranked: the match and the suggestions
Ranked ==
    IF ret.matchType = "similar"
    THEN {ret.result} \cup {ret.suggestions[i] : i \in 1..Len(ret.suggestions)}
    ELSE {}

\* the entries with a length from lo to hi that are similar enough to `w`
SimilarEntries(w, lo, hi) ==
    {WORD_DATABASE[i] : i \in
        {i \in 1..Len(WORD_DATABASE) :
            /\ Len(WORD_DATABASE[i].english) >= lo
            /\ Len(WORD_DATABASE[i].english) <= hi
            /\ Geq(Analyzer_calculateSimilarity(w, toLowerCase(WORD_DATABASE[i].english)), <<7, 10>>)}}

\* the ranking shows the first five of `candidates`
ShowsFirstFive(candidates) ==
    /\ Ranked \subseteq candidates
    /\ Cardinality(Ranked) = IF Cardinality(candidates) < 5 THEN Cardinality(candidates) ELSE 5

C17_Original ==
    (phase = "loaded" /\ Returned /\ FuzzyRan) =>
        ShowsFirstFive(SimilarEntries(ret.normalized, Len(ret.normalized) - 3, Len(ret.normalized) + 3))

(***************************************************************************)
(* C17, amended.  The candidates the fuzzy strategy ranks are exactly the  *)
(* entries whose english has a length from max(3, L - 3) to L + 3, L the   *)
(* length of the normalized word, and whose similarity to the word reaches *)
(* the threshold: entries of length 1 or 2 are never candidates.           *)
(***************************************************************************)
C17_WindowFromThree ==
    (phase = "loaded" /\ Returned /\ FuzzyRan) =>
        ShowsFirstFive(SimilarEntries(ret.normalized,
                                      IF Len(ret.normalized) - 3 < 3 THEN 3 ELSE Len(ret.normalized) - 3,
                                      Len(ret.normalized) + 3))

\* a two-letter entry within three of the word's length, similar enough, not ranked
C17_Witness ==
    /\ phase = "loaded" /\ Returned /\ FuzzyRan
    /\ \E e \in SimilarEntries(ret.normalized, Len(ret.normalized) - 3, Len(ret.normalized) + 3) :
           Len(e.english) < 3 /\ e \notin Ranked

(***************************************************************************)
(* C18 as claimed.  The candidates of the fuzzy strategy are ranked by     *)
(* descending similarity, candidates of equal similarity in the order the  *)
(* lexicon lists them, whatever their lengths; the first is the match and  *)
(* the confidence is its similarity, the suggestions are the next ones in  *)
(* rank order, at most 4, the match never among them.                      *)
(***************************************************************************)
\* the place of entry `e` in the lexicon
PlaceOf(e) == CHOOSE i \in 1..Len(WORD_DATABASE) : WORD_DATABASE[i] = e

SimilarityTo(w, e) == Analyzer_calculateSimilarity(w, toLowerCase(e.english))

\* the match followed by the suggestions
Shown == <<ret.result>> \o ret.suggestions

\* the candidates of the word of the returned analysis
CandidatesOf(w) ==
    SimilarEntries(w, IF Len(w) - 3 < 3 THEN 3 ELSE Len(w) - 3, Len(w) + 3)

\* `a` ranks before `b`: more similar, or as similar and listed earlier
BeforeByPlace(w, a, b) ==
    \/ Gt(SimilarityTo(w, a), SimilarityTo(w, b))
    \/ SimilarityTo(w, a) = SimilarityTo(w, b) /\ PlaceOf(a) < PlaceOf(b)

\* `a` ranks before `b`: more similar, or as similar and shorter, or as similar,
\* as long and listed earlier
BeforeByLength(w, a, b) ==
    \/ Gt(SimilarityTo(w, a), SimilarityTo(w, b))
    \/ /\ SimilarityTo(w, a) = SimilarityTo(w, b)
       /\ \/ Len(a.english) < Len(b.english)
          \/ Len(a.english) = Len(b.english) /\ PlaceOf(a) < PlaceOf(b)

\* the shape both statements share: the match leads with its similarity as
\* confidence, at most four suggestions follow, and all the candidates are shown
\* unless four suggestions are
RankingShape(w) ==
    /\ ret.confidence = SimilarityTo(w, ret.result)
    /\ Len(ret.suggestions) <= 4
    /\ \A i \in 1..Len(ret.suggestions) : ret.suggestions[i] # ret.result
    /\ Len(ret.suggestions) = IF Cardinality(CandidatesOf(w)) > 4 THEN 4
                              ELSE Cardinality(CandidatesOf(w)) - 1

C18_Original ==
    (phase = "loaded" /\ Returned /\ ret.matchType = "similar") =>
        LET w == ret.normalized
        IN  /\ RankingShape(w)
            /\ \A i \in 1..(Len(Shown) - 1) : BeforeByPlace(w, Shown[i], Shown[i + 1])
            /\ \A c \in CandidatesOf(w) \ Ranked : BeforeByPlace(w, Shown[Len(Shown)], c)

(***************************************************************************)
(* C18, amended.  The candidates are ranked by descending similarity,      *)
(* candidates of equal similarity by ascending length and, at equal        *)
(* length, in the order the lexicon lists them; the first is the match and *)
(* the confidence is its similarity, the suggestions are the next ones in  *)
(* rank order, at most 4, the match never among them.                      *)
(***************************************************************************)
C18_TiesByLengthThenPlace ==
    (phase = "loaded" /\ Returned /\ ret.matchType = "similar") =>
        LET w == ret.normalized
        IN  /\ RankingShape(w)
            /\ \A i \in 1..(Len(Shown) - 1) : BeforeByLength(w, Shown[i], Shown[i + 1])
            /\ \A c \in CandidatesOf(w) \ Ranked : BeforeByLength(w, Shown[Len(Shown)], c)

\* four suggestions with a candidate left out, and a shorter candidate shown
\* before one as similar that the lexicon lists earlier
C18_Witness ==
    /\ phase = "loaded" /\ Returned /\ ret.matchType = "similar"
    /\ Len(ret.suggestions) = 4
    /\ CandidatesOf(ret.normalized) \ Ranked # {}
    /\ \E i, j \in 1..Len(Shown) :
           /\ i < j
           /\ SimilarityTo(ret.normalized, Shown[i]) = SimilarityTo(ret.normalized, Shown[j])
           /\ PlaceOf(Shown[i]) > PlaceOf(Shown[j])

(***************************************************************************)
(* C20 as claimed.  In the compound strategy only the first pattern, in    *)
(* list order, that matches the word decides: when it yields fewer than    *)
(* two parts of length >= 3, or a part that is not found, the strategy     *)
(* fails for the word and no later pattern is tried.                       *)
(***************************************************************************)
\* the compound strategy decided the analysis returned last
CompoundRan ==
    /\ ret.matchType \in {"compound", "not_found"}
    /\ Len(ret.normalized) >= 6

\* the patterns, by their place in the list, that match `w`
MatchingPatterns(w) == {i \in 1..Len(Patterns) : PatternGroups(w, Patterns[i]) # <<>>}

\* the patterns that match `w` with at least two parts of length >= 3, all found
SucceedingPatterns(w) ==
    {i \in MatchingPatterns(w) :
        LET parts == PatternParts(w, Patterns[i])
        IN  /\ Len(parts) >= 2
            /\ \A j \in 1..Len(parts) : directMatch(parts[j]) # null}

\* the part strings of the returned decomposition
PartsOf(decomposition) == [j \in 1..Len(decomposition) |-> decomposition[j].part]

C20_Original ==
    (phase = "loaded" /\ Returned /\ CompoundRan) =>
        LET w == ret.normalized
        IN  IF MatchingPatterns(w) # {} /\ Min(MatchingPatterns(w)) \in SucceedingPatterns(w)
            THEN /\ ret.matchType = "compound"
                 /\ PartsOf(ret.decomposition) = PatternParts(w, Patterns[Min(MatchingPatterns(w))])
            ELSE ret.matchType = "not_found"

(***************************************************************************)
(* C20, amended.  In the compound strategy the first pattern, in list      *)
(* order, that matches the word with at least two parts of length >= 3     *)
(* that are all found decides: a pattern that matches but yields too few   *)
(* parts or a part that is not found is passed over and the later patterns *)
(* are tried; the strategy fails only when no pattern succeeds.            *)
(***************************************************************************)
C20_FirstSucceedingPattern ==
    (phase = "loaded" /\ Returned /\ CompoundRan) =>
        LET w == ret.normalized
        IN  IF SucceedingPatterns(w) # {}
            THEN /\ ret.matchType = "compound"
                 /\ PartsOf(ret.decomposition) = PatternParts(w, Patterns[Min(SucceedingPatterns(w))])
            ELSE ret.matchType = "not_found"

\* a compound found by a pattern behind one that matched and failed
C20_Witness ==
    /\ phase = "loaded" /\ Returned /\ CompoundRan
    /\ ret.matchType = "compound"
    /\ Min(MatchingPatterns(ret.normalized)) \notin SucceedingPatterns(ret.normalized)

(***************************************************************************)
(* C21 as claimed.  A word that is not itself an entry, ends in 'es' and   *)
(* has both its stem without 'es' and its stem without 's' in the lexicon  *)
(* is analyzed with the longer suffix: base part the word minus 'es',      *)
(* inflection part 'es'.                                                   *)
(***************************************************************************)
C21_Original ==
    (phase = "loaded" /\ Returned) =>
        LET w == ret.normalized
        IN  ( /\ w \notin LexiconKeys /\ EndsWith(w, <<"e", "s">>)
              /\ DropLast(w, 2) \in LexiconKeys
              /\ DropLast(w, 1) \in LexiconKeys ) =>
                /\ ret.matchType = "inflection"
                /\ Len(ret.decomposition) = 2
                /\ ret.decomposition[1].part = DropLast(w, 2)
                /\ ret.decomposition[2].part = <<"e", "s">>

(***************************************************************************)
(* C22 as claimed.  analyze reports confidence 1.0 only for direct         *)
(* matches: every result whose matchType is not direct, a fuzzy 'similar'  *)
(* result in particular, has a confidence strictly below 1.0.              *)
(***************************************************************************)
C22_Original ==
    (Returned /\ ret.matchType # "direct") => Gt(One, ret.confidence)

(***************************************************************************)
(* C22 amended.  Every result of analyze whose matchType is not direct has *)
(* a confidence of at most 1.0, and strictly below 1.0 unless it is a      *)
(* fuzzy 'similar' result; a 'similar' result has confidence 1.0 exactly   *)
(* when the word and the lowercased english of the entry it returns are    *)
(* written with the same set of characters and neither contains the other. *)
(***************************************************************************)
C22_OnlyDirectOrSameCharacters ==
    (Returned /\ ret.matchType # "direct") =>
        /\ Geq(One, ret.confidence)
        /\ ret.matchType # "similar" => Gt(One, ret.confidence)
        /\ ret.matchType = "similar" =>
               LET w == ret.normalized
                   e == toLowerCase(ret.result.english)
               IN  (ret.confidence = One) <=>
                       /\ CharSet(w) = CharSet(e)
                       /\ ~Includes(w, e) /\ ~Includes(e, w)

\* a fuzzy match was returned with confidence 1.0 for a word that is no entry
C22_Witness ==
    /\ Returned /\ ret.found /\ ret.matchType = "similar"
    /\ ret.confidence = One
    /\ ret.normalized # toLowerCase(ret.result.english)

(***************************************************************************)
(* C23 as claimed.  The fuzzy strategy runs before the compound strategy   *)
(* and scores an entry contained in the word 0.9, so a word that splits    *)
(* into two parts one of which has exactly 3 characters is never returned  *)
(* as compound: every result of matchType compound has two parts of at     *)
(* least 4 characters each, and its word has at least 8 characters.        *)
(***************************************************************************)
C23_Original ==
    (phase = "loaded" /\ Returned /\ ret.matchType = "compound") =>
        /\ Len(ret.decomposition) = 2
        /\ \A i \in 1..Len(ret.decomposition) : Len(ret.decomposition[i].part) >= 4
        /\ Len(ret.normalized) >= 8

(***************************************************************************)
(* C24 as claimed.  What findWordInDatabase returns for a word does not    *)
(* depend on the lookups made before: for a word that is the lowercased    *)
(* english of an entry loaded without an analysis it returns that entry    *)
(* with analysis.matchType direct and confidence 1.0, whatever lookups,    *)
(* of inflected or prefixed forms of the word included, came first.        *)
(***************************************************************************)
C24_Original ==
    (dbCall # NoCall /\ mapping = "loaded") =>
        \A e \in DatabasePool :
            ( /\ ~HasField(e, "analysis")
              /\ toLowerCase(e.english) = dbCall.word
              /\ ExactFound ) =>
                /\ dbCall.entry # null
                /\ dbCall.entry.english = e.english
                /\ dbCall.entry.chinese = e.chinese
                /\ dbCall.entry.analysis.matchType = "direct"
                /\ dbCall.entry.analysis.confidence = One

====
